---- MODULE Spec2Model ----
(***************************************************************************)
(* A model of schedule/make_weeks.py: the command-line parser, the         *)
(* calendar engine (build_schedule) and the file-writing loop of main.     *)
(*                                                                         *)
(* Strings are sequences of one-character strings.  A date is its          *)
(* proleptic Gregorian ordinal (datetime.date.toordinal()): 1 is           *)
(* 0001-01-01, a Monday, and MaxOrdinal is 9999-12-31, the last date the   *)
(* date type can hold; date arithmetic beyond either end raises            *)
(* OverflowError.                                                          *)
(***************************************************************************)
EXTENDS Integers, Sequences, FiniteSets, TLC

VARIABLES
    argv,            \* main: the argument list, argv[1] is the program name (Python argv[0])
    pc,              \* position of the running program
    err,             \* how the run ended: "none" while running or on success
    start_date,      \* parsed start date (ordinal), 0 before it is parsed
    end_date,        \* parsed end date (ordinal), 0 before it is parsed
    meeting_days,    \* sorted list of weekday numbers
    no_class_dates,  \* set of excluded dates
    week_index,      \* build_schedule's loop counter
    yielded,         \* the weeks build_schedule has yielded so far, in order
    week_files,      \* main: names of the week files written so far
    fs,              \* the working directory: file name -> content
    fs0,             \* the working directory as it was when the run began
    writes,          \* log of the write_text calls of this run, in order
    stdout,          \* the lines printed so far
    days_in,         \* parse_meeting_days: the input string
    days_out         \* parse_meeting_days: its outcome

mainVars == <<argv, week_files, fs, fs0, writes, stdout>>
inputVars == <<start_date, end_date, meeting_days, no_class_dates>>
genVars == <<week_index, yielded>>
daysVars == <<days_in, days_out>>

vars == <<pc, err, mainVars, inputVars, genVars, daysVars>>

(***************************************************************************)
(* Characters and strings                                                  *)
(***************************************************************************)
Digits == <<"0", "1", "2", "3", "4", "5", "6", "7", "8", "9">>

UpperCase == <<"A", "B", "C", "D", "E", "F", "G", "H", "I", "J", "K", "L", "M",
               "N", "O", "P", "Q", "R", "S", "T", "U", "V", "W", "X", "Y", "Z">>

LowerCase == <<"a", "b", "c", "d", "e", "f", "g", "h", "i", "j", "k", "l", "m",
               "n", "o", "p", "q", "r", "s", "t", "u", "v", "w", "x", "y", "z">>

Range(f) == {f[i] : i \in DOMAIN f}

DigitSet == Range(Digits)

LetterSet == Range(UpperCase) \cup Range(LowerCase)

IsDigit(c) == c \in DigitSet

DigitVal(c) == (CHOOSE i \in 1..10 : Digits[i] = c) - 1

\* str.isalpha() for one character
IsAlphaChar(c) == c \in LetterSet

\* the characters str.strip() and str.split() treat as whitespace
IsSpace(c) == c \in {" ", "\t", "\n"}

\* str.lower() for one character
LowerChar(c) ==
    IF c \in Range(UpperCase)
    THEN LowerCase[CHOOSE i \in 1..26 : UpperCase[i] = c]
    ELSE c

\* str.lower()
Lower(s) == [i \in 1..Len(s) |-> LowerChar(s[i])]

\* str.isalpha(): non-empty and every character a letter
IsAlpha(s) == Len(s) > 0 /\ \A i \in 1..Len(s) : IsAlphaChar(s[i])

\* str.strip()
Strip(s) ==
    LET keep == {i \in 1..Len(s) : ~IsSpace(s[i])}
    IN  IF keep = {} THEN <<>>
        ELSE LET lo == CHOOSE i \in keep : \A j \in keep : i <= j
                 hi == CHOOSE i \in keep : \A j \in keep : j <= i
             IN  SubSeq(s, lo, hi)

\* str.replace(old, new) for one-character old and new
Replace(s, old, new) == [i \in 1..Len(s) |-> IF s[i] = old THEN new ELSE s[i]]

\* str.split(sep) for a one-character sep: empty pieces are kept
RECURSIVE SplitOn(_, _)
SplitOn(s, sep) ==
    LET at == {i \in 1..Len(s) : s[i] = sep}
    IN  IF at = {} THEN <<s>>
        ELSE LET k == CHOOSE i \in at : \A j \in at : i <= j
             IN  <<SubSeq(s, 1, k - 1)>> \o SplitOn(SubSeq(s, k + 1, Len(s)), sep)

\* str.split() with no separator: runs of whitespace separate, no empty pieces
RECURSIVE SplitWs(_)
SplitWs(s) ==
    LET t == Strip(s)
        at == {i \in 1..Len(t) : IsSpace(t[i])}
    IN  IF t = <<>> THEN <<>>
        ELSE IF at = {} THEN <<t>>
        ELSE LET k == CHOOSE i \in at : \A j \in at : i <= j
             IN  <<SubSeq(t, 1, k - 1)>> \o SplitWs(SubSeq(t, k + 1, Len(t)))

RECURSIVE DigitsValue(_)
DigitsValue(s) ==
    IF s = <<>> THEN 0
    ELSE 10 * DigitsValue(SubSeq(s, 1, Len(s) - 1)) + DigitVal(s[Len(s)])

\* int(x): surrounding whitespace is dropped, one sign is allowed, and the
\* rest must be a non-empty run of decimal digits; anything else is ValueError
\* (the strings of this model hold no underscore and no non-ASCII digit)
ParseInt(x) ==
    LET t == Strip(x)
        signed == Len(t) > 0 /\ t[1] \in {"-", "+"}
        body == IF signed THEN Tail(t) ELSE t
    IN  IF Len(body) > 0 /\ \A i \in 1..Len(body) : IsDigit(body[i])
        THEN [ok |-> TRUE,
              val |-> IF signed /\ t[1] = "-" THEN 0 - DigitsValue(body)
                      ELSE DigitsValue(body)]
        ELSE [ok |-> FALSE, val |-> 0]

(***************************************************************************)
(* datetime.date                                                           *)
(***************************************************************************)
MINYEAR == 1
MAXYEAR == 9999

IsLeap(y) == y % 4 = 0 /\ (y % 100 # 0 \/ y % 400 = 0)

DaysInMonth(y, m) ==
    IF m = 2 THEN (IF IsLeap(y) THEN 29 ELSE 28)
    ELSE IF m \in {4, 6, 9, 11} THEN 30 ELSE 31

DaysBeforeYear(y) ==
    LET p == y - 1 IN p * 365 + (p \div 4) - (p \div 100) + (p \div 400)

RECURSIVE DaysBeforeMonth(_, _)
DaysBeforeMonth(y, m) ==
    IF m = 1 THEN 0 ELSE DaysBeforeMonth(y, m - 1) + DaysInMonth(y, m - 1)

\* date(y, m, d): is the triple a calendar date the type can hold
ValidYmd(y, m, d) ==
    /\ MINYEAR <= y /\ y <= MAXYEAR
    /\ 1 <= m /\ m <= 12
    /\ 1 <= d /\ d <= DaysInMonth(y, m)

\* date(y, m, d).toordinal()
Ymd2Ord(y, m, d) == DaysBeforeYear(y) + DaysBeforeMonth(y, m) + d

MinOrdinal == Ymd2Ord(MINYEAR, 1, 1)
MaxOrdinal == Ymd2Ord(MAXYEAR, 12, 31)

\* date.fromordinal(n) as [y, m, d]
Ord2Ymd(n) ==
    LET y == CHOOSE yy \in ((n \div 366) + 1)..((n \div 365) + 1) :
                 DaysBeforeYear(yy) < n /\ n <= DaysBeforeYear(yy + 1)
        doy == n - DaysBeforeYear(y)
        m == CHOOSE mm \in 1..12 :
                 DaysBeforeMonth(y, mm) < doy
                 /\ doy <= DaysBeforeMonth(y, mm) + DaysInMonth(y, mm)
    IN  [y |-> y, m |-> m, d |-> doy - DaysBeforeMonth(y, m)]

\* date.weekday(): Monday = 0 .. Sunday = 6
Weekday(n) == (n + 6) % 7

\* date + timedelta(days = k): OverflowError outside [date.min, date.max]
InDateRange(n) == MinOrdinal <= n /\ n <= MaxOrdinal

(***************************************************************************)
(* The argument parser                                                     *)
(***************************************************************************)
\* The day table: <<key, weekday number>>, Monday = 0 .. Sunday = 6
DAY_NAME_MAP ==
    {
       <<<<"m">>, 0>>,
       <<<<"m", "o", "n">>, 0>>,
       <<<<"m", "o", "n", "d", "a", "y">>, 0>>,
       <<<<"t">>, 1>>,
       <<<<"t", "u">>, 1>>,
       <<<<"t", "u", "e">>, 1>>,
       <<<<"t", "u", "e", "s">>, 1>>,
       <<<<"t", "u", "e", "s", "d", "a", "y">>, 1>>,
       <<<<"w">>, 2>>,
       <<<<"w", "e", "d">>, 2>>,
       <<<<"w", "e", "d", "n", "e", "s", "d", "a", "y">>, 2>>,
       <<<<"r">>, 3>>,
       <<<<"t", "h">>, 3>>,
       <<<<"t", "h", "u">>, 3>>,
       <<<<"t", "h", "u", "r">>, 3>>,
       <<<<"t", "h", "u", "r", "s">>, 3>>,
       <<<<"t", "h", "u", "r", "s", "d", "a", "y">>, 3>>,
       <<<<"f">>, 4>>,
       <<<<"f", "r", "i">>, 4>>,
       <<<<"f", "r", "i", "d", "a", "y">>, 4>>,
       <<<<"s", "a">>, 5>>,
       <<<<"s", "a", "t">>, 5>>,
       <<<<"s", "a", "t", "u", "r", "d", "a", "y">>, 5>>,
       <<<<"s", "u">>, 6>>,
       <<<<"s", "u", "n">>, 6>>,
       <<<<"s", "u", "n", "d", "a", "y">>, 6>>
    }

DayKeys == {e[1] : e \in DAY_NAME_MAP}

\* DAY_NAME_MAP[key]
DayOf(key) == (CHOOSE e \in DAY_NAME_MAP : e[1] = key)[2]

\* date(y, m, d) from the three results of int(): ValueError when one of them
\* failed or the triple is no date
MakeDate(m, d, y) ==
    IF m.ok /\ d.ok /\ y.ok /\ ValidYmd(y.val, m.val, d.val)
    THEN [ok |-> TRUE, val |-> Ymd2Ord(y.val, m.val, d.val)]
    ELSE [ok |-> FALSE, val |-> 0]

\* m, d, y = (int(x) for x in parts): exactly three parts, or ValueError
UnpackDate(parts) ==
    IF Len(parts) = 3
    THEN MakeDate(ParseInt(parts[1]), ParseInt(parts[2]), ParseInt(parts[3]))
    ELSE [ok |-> FALSE, val |-> 0]

\* parse_date: M/D/YYYY -> date; every failure is a ValueError
parse_date(dstr) == UnpackDate(SplitOn(Strip(dstr), "/"))

\* parse_date_list: dates separated by commas and/or whitespace -> set of dates
parse_date_list(s) ==
    IF s = <<>> THEN [ok |-> TRUE, val |-> {}]
    ELSE LET parts == SplitWs(Replace(s, ",", " "))
             ds == [i \in 1..Len(parts) |-> parse_date(parts[i])]
         IN  IF \A i \in 1..Len(parts) : ds[i].ok
             THEN [ok |-> TRUE, val |-> {ds[i].val : i \in 1..Len(parts)}]
             ELSE [ok |-> FALSE, val |-> {}]

\* the string parse_meeting_days tokenises: commas become spaces, then strip
DaysNormalised(meeting_days_str) == Strip(Replace(meeting_days_str, ",", " "))

\* the compact-form test of parse_meeting_days, on the normalised string
IsCompact(s) ==
    /\ \A i \in 1..Len(s) : s[i] # " "
    /\ IsAlpha(s)
    /\ 1 < Len(s) /\ Len(s) <= 3

\* the tokens of parse_meeting_days: list(s) for the compact form, s.split() otherwise
DayTokens(meeting_days_str) ==
    LET s == DaysNormalised(meeting_days_str)
    IN  IF IsCompact(s) THEN [i \in 1..Len(s) |-> <<s[i]>>] ELSE SplitWs(s)

\* one pass of the token loop: append the weekday unless it is already there
AppendDay(weekdays, wd) ==
    IF \E i \in 1..Len(weekdays) : weekdays[i] = wd THEN weekdays
    ELSE Append(weekdays, wd)

\* the token loop: stops at the first token that is not in the table
RECURSIVE DaysLoop(_, _)
DaysLoop(tokens, weekdays) ==
    IF tokens = <<>> THEN [ok |-> TRUE, val |-> weekdays, tok |-> <<>>]
    ELSE IF Lower(Head(tokens)) \notin DayKeys
         THEN [ok |-> FALSE, val |-> <<>>, tok |-> Head(tokens)]
         ELSE DaysLoop(Tail(tokens), AppendDay(weekdays, DayOf(Lower(Head(tokens)))))

\* mutant: the list is returned unsorted
SortAsc_none(l) == l

\* list.sort() of a list of integers
RECURSIVE SortAsc(_)
SortAsc(l) ==
    IF l = <<>> THEN <<>>
    ELSE LET k == CHOOSE i \in 1..Len(l) : \A j \in 1..Len(l) : l[i] <= l[j]
             rest == [i \in 1..(Len(l) - 1) |-> IF i < k THEN l[i] ELSE l[i + 1]]
         IN  <<l[k]>> \o SortAsc(rest)

\* parse_meeting_days: [ok, val] with val the sorted list of weekdays, or
\* ok = FALSE and tok the token the ValueError names
parse_meeting_days(meeting_days_str) ==
    LET r == DaysLoop(DayTokens(meeting_days_str), <<>>)
    IN  IF r.ok THEN [ok |-> TRUE, val |-> SortAsc(r.val), tok |-> <<>>] ELSE r

(***************************************************************************)
(* The calendar engine: build_schedule                                     *)
(***************************************************************************)
\* mutant: isoweekday() (Monday = 1) in place of weekday()
first_monday_iso(start) == start - (Weekday(start) + 1)

first_monday(start) == start - Weekday(start)

\* the meeting loop of one week: the pattern's days in list order, each kept
\* when it lies in [start, end] and is not excluded
RECURSIVE MeetingsLoop_open(_, _, _, _, _, _)
\* mutant: the range test excludes the end date (d < end_date)
MeetingsLoop_open(days, week_start, start, end, excl, meetings) ==
    IF days = <<>> THEN meetings
    ELSE LET d == week_start + Head(days)
         IN  MeetingsLoop_open(Tail(days), week_start, start, end, excl,
                               IF start <= d /\ d < end /\ d \notin excl
                               THEN Append(meetings, d) ELSE meetings)

RECURSIVE MeetingsLoop(_, _, _, _, _, _)
MeetingsLoop(days, week_start, start, end, excl, meetings) ==
    IF days = <<>> THEN meetings
    ELSE LET d == week_start + Head(days)
         IN  MeetingsLoop(Tail(days), week_start, start, end, excl,
                          IF start <= d /\ d <= end /\ d \notin excl
                          THEN Append(meetings, d) ELSE meetings)

\* one pass of the while loop for loop counter idx: the generator raises
\* OverflowError, breaks, or yields (week_number, week_start, week_end, meetings).
\* week_end is computed before the break test.
GenStep(start, end, days, excl, idx) ==
    LET week_start == first_monday(start) + 7 * idx
        week_end == week_start + 6
    IN  IF ~InDateRange(week_start) \/ ~InDateRange(week_end)
        THEN [kind |-> "overflow"]
        ELSE IF week_start > end
        THEN [kind |-> "stop"]
        ELSE [kind |-> "yield",
              week |-> [week_number |-> idx + 1,
                        week_start |-> week_start,
                        week_end |-> week_end,
                        meetings |-> MeetingsLoop(days, week_start, start, end,
                                                  excl, <<>>)]]

(***************************************************************************)
(* The document generator                                                  *)
(***************************************************************************)
MonthNames == <<"January", "February", "March", "April", "May", "June", "July",
                "August", "September", "October", "November", "December">>

\* str(n) for n >= 0, as a sequence of digit characters
RECURSIVE IntToStr(_)
IntToStr(n) ==
    IF n < 10 THEN <<Digits[n + 1]>>
    ELSE IntToStr(n \div 10) \o <<Digits[(n % 10) + 1]>>

\* f"{n:02d}"
Pad2(n) == IF n < 10 THEN <<"0">> \o IntToStr(n) ELSE IntToStr(n)

\* d.strftime("%B %-d"): month name and day of month, no padding, no year
format_date_for_title(d) ==
    LET c == Ord2Ymd(d) IN <<MonthNames[c.m], " ">> \o IntToStr(c.d)

\* d.strftime("%B %d"): month name and two-digit day of month, no year
format_date_for_meeting_title(d) ==
    LET c == Ord2Ymd(d) IN <<MonthNames[c.m], " ">> \o Pad2(c.d)

\* generate_week_xml: the text is a fixed template around the identifier, the
\* two title dates and one "Material" entry per meeting date
generate_week_xml(week_number, week_start, week_end, meeting_dates) ==
    [kind |-> "week",
     id |-> <<"week-">> \o Pad2(week_number),
     title |-> <<format_date_for_title(week_start), format_date_for_title(week_end)>>,
     items |-> [i \in 1..Len(meeting_dates) |->
                   format_date_for_meeting_title(meeting_dates[i])]]

\* mutant: the file is named by the loop counter, not the week number
WeekFileName_index(week_number) == <<"week">> \o Pad2(week_number - 1) \o <<".ptx">>

\* f"week{week_number:02d}.ptx"
WeekFileName(week_number) == <<"week">> \o Pad2(week_number) \o <<".ptx">>

MainFileName == <<"main.ptx">>

\* the text generate_main_ptx writes: one xi:include per week file, in list
\* order, then the fixed conclusion
MainPtx(files) == [kind |-> "index", includes |-> files]

\* Path(name).write_text(text): creates or silently overwrites
WriteFile(dir, name, text) ==
    [f \in (DOMAIN dir) \cup {name} |-> IF f = name THEN text ELSE dir[f]]

(***************************************************************************)
(* Bounds of the checked instances                                         *)
(***************************************************************************)
\* build_schedule is run on date ranges inside two windows of Span + 1
\* consecutive days: one in March 2026, one ending at date.max
Span == 14

\* the exclusion set holds at most MaxExcl dates of the window
MaxExcl == 1

EarlyWindow == Ymd2Ord(2026, 3, 9)..(Ymd2Ord(2026, 3, 9) + Span)
LateWindow == (MaxOrdinal - Span)..MaxOrdinal

\* meeting-day strings whose parse gives the patterns build_schedule is run on
PatternStrings ==
    {
       <<"M", "W", "F">>,
       <<"T", "R">>,
       <<"M", "o", "n", " ", "W", "e", "d">>,
       <<"t", "u", "e", "s", "d", "a", "y">>,
       <<"S", "u", "M">>,
       <<"F", " ", "S", "a", " ", "S", "u">>,
       <<"M", ",", "T", ",", "W", ",", "R", ",", "F">>,
       <<>>
    }

Patterns == {parse_meeting_days(s).val : s \in PatternStrings}

(***************************************************************************)
(* Variables a specification does not use stay at these values             *)
(***************************************************************************)
IdleMain ==
    /\ argv = <<>>
    /\ week_files = <<>>
    /\ fs = <<>>
    /\ fs0 = <<>>
    /\ writes = <<>>
    /\ stdout = <<>>

IdleDays ==
    /\ days_in = <<>>
    /\ days_out = [ok |-> TRUE, val |-> <<>>, tok |-> <<>>]

IdleSched ==
    /\ start_date = 0
    /\ end_date = 0
    /\ meeting_days = <<>>
    /\ no_class_dates = {}
    /\ week_index = 0
    /\ yielded = <<>>

(***************************************************************************)
(* SpecSched: build_schedule iterated to its end on every bounded input    *)
(***************************************************************************)
SchedInit ==
    /\ \E win \in {EarlyWindow, LateWindow} :
          /\ start_date \in win
          /\ end_date \in win
          /\ start_date <= end_date
          /\ no_class_dates \in {x \in SUBSET win : Cardinality(x) <= MaxExcl}
    /\ meeting_days \in Patterns
    /\ week_index = 0
    /\ yielded = <<>>
    /\ pc = "gen"
    /\ err = "none"
    /\ IdleMain
    /\ IdleDays

SchedStep == GenStep(start_date, end_date, meeting_days, no_class_dates, week_index)

\* next(): the generator yields a week
SchedYield ==
    /\ pc = "gen"
    /\ SchedStep.kind = "yield"
    /\ yielded' = Append(yielded, SchedStep.week)
    /\ week_index' = week_index + 1
    /\ UNCHANGED <<pc, err, mainVars, inputVars, daysVars>>

\* next(): the loop breaks and the generator is exhausted
SchedStop ==
    /\ pc = "gen"
    /\ SchedStep.kind = "stop"
    /\ pc' = "stopped"
    /\ UNCHANGED <<err, mainVars, inputVars, genVars, daysVars>>

\* next(): the date arithmetic leaves the range of the date type
SchedOverflow ==
    /\ pc = "gen"
    /\ SchedStep.kind = "overflow"
    /\ pc' = "raised"
    /\ err' = "OverflowError"
    /\ UNCHANGED <<mainVars, inputVars, genVars, daysVars>>

SchedNext == SchedYield \/ SchedStop \/ SchedOverflow

SpecSched == SchedInit /\ [][SchedNext]_vars

(***************************************************************************)
(* Claims about build_schedule                                             *)
(***************************************************************************)
\* the number of Monday-Sunday weeks that intersect [start, end]
WeeksIntersecting(start, end) ==
    Cardinality({m \in (start - 6)..end : Weekday(m) = 0 /\ m + 6 >= start})

\* C1: once build_schedule has ended, the weeks it yielded are numbered exactly
\* 1..K in order, K the number of calendar weeks intersecting [start, end];
\* week n starts 7*(n-1) days after the first week's start and ends 6 days
\* after its own start.
C1_WeekNumbering ==
    /\ \A n \in 1..Len(yielded) :
          /\ yielded[n].week_number = n
          /\ yielded[n].week_start = yielded[1].week_start + 7 * (n - 1)
          /\ yielded[n].week_end = yielded[n].week_start + 6
    /\ pc # "gen" => Len(yielded) = WeeksIntersecting(start_date, end_date)

\* C1 away from the end of the date type: when the week after the last
\* intersecting week still ends on or before date.max, the generator ends by
\* exhaustion with exactly the K weeks.
WeekNumberingBelowMax ==
    (pc # "gen" /\ first_monday(end_date) + 13 <= MaxOrdinal) =>
        /\ pc = "stopped"
        /\ Len(yielded) = WeeksIntersecting(start_date, end_date)

\* the dates of week w that are eligible: on a pattern weekday, inside
\* [start, end], not excluded
Eligible(w) ==
    {d \in w.week_start..w.week_end :
        /\ \E i \in 1..Len(meeting_days) : meeting_days[i] = Weekday(d)
        /\ start_date <= d /\ d <= end_date
        /\ d \notin no_class_dates}

\* C2: every yielded week's meeting list is strictly increasing and holds
\* exactly the eligible dates of that week.
C2_MeetingsExact ==
    \A n \in 1..Len(yielded) :
        LET w == yielded[n]
        IN  /\ \A i, j \in 1..Len(w.meetings) : i < j => w.meetings[i] < w.meetings[j]
            /\ Range(w.meetings) = Eligible(w)

\* a week with two meetings, one pattern day excluded and one out of range
C2_Witness ==
    \E n \in 1..Len(yielded) :
        LET w == yielded[n]
            onPattern == {d \in w.week_start..w.week_end :
                             \E i \in 1..Len(meeting_days) : meeting_days[i] = Weekday(d)}
        IN  /\ Len(w.meetings) >= 2
            /\ \E d \in onPattern : d \in no_class_dates
            /\ \E d \in onPattern : d > end_date \/ d < start_date

\* C3: the first yielded week starts on a Monday on or before start and at
\* most 6 days before it.
C3_FirstWeekMonday ==
    Len(yielded) >= 1 =>
        /\ Weekday(yielded[1].week_start) = 0
        /\ yielded[1].week_start <= start_date
        /\ start_date - yielded[1].week_start <= 6

\* a first week that starts before a start date that is not a Monday
C3_Witness ==
    /\ Len(yielded) >= 1
    /\ Weekday(start_date) = 3
    /\ yielded[1].week_start = start_date - 3

(***************************************************************************)
(* SpecDays: parse_meeting_days applied to every bounded input string      *)
(***************************************************************************)
\* an input string is the concatenation of at most MaxPieces pieces
MaxPieces == 3

Pieces ==
    {
       <<"M">>,
       <<"W">>,
       <<"F">>,
       <<"T">>,
       <<"R">>,
       <<"m">>,
       <<"M", "o", "n">>,
       <<"W", "e", "d">>,
       <<"t", "u", "e", "s", "d", "a", "y">>,
       <<"T", "h">>,
       <<"S", "u", "n">>,
       <<" ">>,
       <<",">>,
       <<"\t">>,
       <<"x">>
    }

RECURSIVE Concat(_)
Concat(ss) == IF ss = <<>> THEN <<>> ELSE Head(ss) \o Concat(Tail(ss))

UpperChar(c) ==
    IF c \in Range(LowerCase)
    THEN UpperCase[CHOOSE i \in 1..26 : LowerCase[i] = c]
    ELSE c

\* every key of the day table alone: lower case, upper case and capitalised
KeyStrings ==
    DayKeys
    \cup {[i \in 1..Len(k) |-> UpperChar(k[i])] : k \in DayKeys}
    \cup {[i \in 1..Len(k) |-> IF i = 1 THEN UpperChar(k[i]) ELSE k[i]] : k \in DayKeys}

DaysInit ==
    /\ \/ days_in \in KeyStrings
       \/ \E n \in 0..MaxPieces : \E ps \in [1..n -> Pieces] : days_in = Concat(ps)
    /\ days_out = [ok |-> TRUE, val |-> <<>>, tok |-> <<>>]
    /\ pc = "call"
    /\ err = "none"
    /\ IdleMain
    /\ IdleSched

\* the call parse_meeting_days(days_in) returns or raises ValueError
DaysParse ==
    /\ pc = "call"
    /\ days_out' = parse_meeting_days(days_in)
    /\ pc' = IF days_out'.ok THEN "returned" ELSE "raised"
    /\ err' = IF days_out'.ok THEN "none" ELSE "ValueError: Unknown day token"
    /\ days_in' = days_in
    /\ UNCHANGED <<mainVars, inputVars, genVars>>

DaysNext == DaysParse

SpecDays == DaysInit /\ [][DaysNext]_vars

(***************************************************************************)
(* Claims about parse_meeting_days                                         *)
(***************************************************************************)
IsSep(c) == IsSpace(c) \/ c = ","

\* the words of s: its maximal runs of characters that are neither
\* whitespace nor commas, in order
Words(s) ==
    LET starts == {i \in 1..Len(s) : ~IsSep(s[i]) /\ (i = 1 \/ IsSep(s[i - 1]))}
        endOf(i) == CHOOSE j \in i..Len(s) :
                        /\ \A k \in i..j : ~IsSep(s[k])
                        /\ (j = Len(s) \/ IsSep(s[j + 1]))
        nth(n) == CHOOSE i \in starts : Cardinality({j \in starts : j < i}) = n - 1
    IN  [n \in 1..Cardinality(starts) |-> SubSeq(s, nth(n), endOf(nth(n)))]

Chars(s) == [i \in 1..Len(s) |-> <<s[i]>>]

IsShortAlpha(s) == Len(s) \in {2, 3} /\ \A i \in 1..Len(s) : IsAlphaChar(s[i])

\* the tokenisation as the claim words it: the compact test is on the string itself
ClaimedTokens(s) == IF IsShortAlpha(s) THEN Chars(s) ELSE Words(s)

\* the tokenisation with the compact test on the only word of the string
TrimmedTokens(s) ==
    IF Len(Words(s)) = 1 /\ IsShortAlpha(Words(s)[1]) THEN Chars(Words(s)[1])
    ELSE Words(s)

\* what the claim requires of the outcome out for the tokens toks: all tokens
\* known -> the strictly increasing list of their weekdays; otherwise the
\* error names the first unknown token
DaysOutcomeIs(out, toks) ==
    LET unknown == {i \in 1..Len(toks) : Lower(toks[i]) \notin DayKeys}
    IN  IF unknown = {}
        THEN /\ out.ok
             /\ \A i, j \in 1..Len(out.val) : i < j => out.val[i] < out.val[j]
             /\ Range(out.val) = {DayOf(Lower(toks[i])) : i \in 1..Len(toks)}
        ELSE /\ ~out.ok
             /\ out.tok = toks[CHOOSE i \in unknown : \A j \in unknown : i <= j]

DaysExamples ==
    /\ days_in = <<"M", "W", "F">> => days_out.val = <<0, 2, 4>>
    /\ days_in = <<"T", "R">> => days_out.val = <<1, 3>>
    /\ days_in = <<"M", "o", "n", " ", "W", "e", "d">> => days_out.val = <<0, 2>>
    /\ days_in = <<"t", "u", "e", "s", "d", "a", "y">> => days_out.val = <<1>>

\* C8 as stated: the result of parse_meeting_days is the sorted duplicate-free
\* list of the weekdays of the string's tokens, where a string with no
\* whitespace, only letters and length 2 or 3 is tokenised one character per
\* token and every other string is split on whitespace and commas; an
\* unrecognised token fails with the error naming it.
C8_AsStated ==
    pc # "call" => DaysOutcomeIs(days_out, ClaimedTokens(days_in)) /\ DaysExamples

\* C8 as amended: the same, with the compact test made on the string after its
\* commas are turned into spaces and the surrounding whitespace is stripped,
\* that is on the string's only word.
C8_ParseDays ==
    pc # "call" => DaysOutcomeIs(days_out, TrimmedTokens(days_in)) /\ DaysExamples

\* a compact string followed by a separator and out of order, accepted and
\* returned sorted
C8_Witness ==
    /\ pc = "returned"
    /\ days_in = <<"W", "M", ",">>
    /\ days_out.val = <<0, 2>>

\* C10: every key of the day table, in any letter case, given alone as the
\* whole string is accepted and yields the one-element list of its weekday.
C10_KeyAloneAccepted ==
    (pc # "call" /\ Lower(days_in) \in DayKeys) =>
        days_out.ok /\ days_out.val = <<DayOf(Lower(days_in))>>

(***************************************************************************)
(* Spec: main run on every bounded argument list                           *)
(***************************************************************************)
\* at most MaxArgs tokens follow the program name
MaxArgs == 5

\* the week loop of the checked runs is cut after MaxWeeks weeks: a run from
\* 2026 to 9999 is followed for its first MaxWeeks weeks only
MaxWeeks == 4

\* argument lists that begin with valid positional tokens carry at most
\* MaxTail further tokens
MaxTail == 3

ProgName == <<"m", "a", "k", "e", "_", "w", "e", "e", "k", "s", ".", "p", "y">>

NoClassFlag == <<"-", "-", "n", "o", "-", "c", "l", "a", "s", "s">>

Tok_Mar12 == <<"3", "/", "1", "2", "/", "2", "0", "2", "6">>
Tok_Mar18 == <<"3", "/", "1", "8", "/", "2", "0", "2", "6">>
Tok_Mar25 == <<"3", "/", "2", "5", "/", "2", "0", "2", "6">>
Tok_Dec30_9999 == <<"1", "2", "/", "3", "0", "/", "9", "9", "9", "9">>
Tok_MonWed == <<"M", "o", "n", " ", "W", "e", "d">>
Tok_zz == <<"z", "z">>
\* the tokens argument lists are made of; zz is neither a date, a day nor a
\* list of dates
ArgTokens == {Tok_Mar12, Tok_Mar18, Tok_Mar25, Tok_Dec30_9999, Tok_MonWed, Tok_zz,
              NoClassFlag}

\* what a file of an earlier run holds, and what a file holds after a write
\* that failed part-way
StaleText == [kind |-> "stale"]
PartialText == [kind |-> "partial"]

\* the working directory when the run begins: it holds files of an earlier
\* run, so that week01.ptx and main.ptx are overwritten and week02.ptx,
\* week03.ptx, ... are created
StaleDir ==
    [f \in {WeekFileName(1), WeekFileName(9), MainFileName} |-> StaleText]

\* the tokens that follow valid positional tokens in the longer lists
TailTokens == {NoClassFlag, Tok_Mar18, Tok_MonWed, Tok_zz}

\* argv[i] with Python's index: the program name is Arg(0)
Arg(i) == argv[i + 1]

\* argv.index(x): the first position of x, as a Python index
IndexOf(x) == (CHOOSE i \in 1..Len(argv) : argv[i] = x /\ \A j \in 1..(i - 1) : argv[j] # x) - 1

\* mutant: the comparison is the wrong way round
EndBeforeStart_swapped(start, end) == start < end

\* end_date < start_date
EndBeforeStart(start, end) == end < start

\* mutant: the flag itself is read as its value (argv[idx])
NoClassValue_self == Arg(IndexOf(NoClassFlag))

\* argv[idx + 1]: the token after the first --no-class
NoClassValue == Arg(IndexOf(NoClassFlag) + 1)

\* the argument lists of the checked runs: every list of at most MaxArgs
\* tokens, and the lists that begin with two valid dates and a valid
\* meeting-day string and go on with at most MaxTail tokens
Init ==
    /\ \/ \E n \in 0..MaxArgs : \E rest \in [1..n -> ArgTokens] :
             argv = <<ProgName>> \o rest
       \/ \E d1, d2 \in {Tok_Mar12, Tok_Mar25} :
             \E n \in 0..MaxTail : \E tail \in [1..n -> TailTokens] :
                argv = <<ProgName, d1, d2, Tok_MonWed>> \o tail
    /\ fs0 = StaleDir
    /\ fs = fs0
    /\ pc = "main"
    /\ err = "none"
    /\ week_files = <<>>
    /\ writes = <<>>
    /\ stdout = <<>>
    /\ IdleSched
    /\ IdleDays

\* len(argv) < 4: print the usage text and sys.exit(1)
UsageExit ==
    /\ pc = "main"
    /\ Len(argv) < 4
    /\ stdout' = Append(stdout, <<"usage">>)
    /\ pc' = "failed"
    /\ err' = "SystemExit: 1"
    /\ UNCHANGED <<argv, week_files, fs, fs0, writes, inputVars, genVars, daysVars>>

\* start_date = parse_date(argv[1])
ParseStart ==
    /\ pc = "main"
    /\ Len(argv) >= 4
    /\ parse_date(Arg(1)).ok
    /\ start_date' = parse_date(Arg(1)).val
    /\ pc' = "parse_end"
    /\ UNCHANGED <<err, mainVars, end_date, meeting_days, no_class_dates, genVars, daysVars>>

ParseStartFails ==
    /\ pc = "main"
    /\ Len(argv) >= 4
    /\ ~parse_date(Arg(1)).ok
    /\ pc' = "failed"
    /\ err' = "ValueError: date"
    /\ UNCHANGED <<mainVars, inputVars, genVars, daysVars>>

\* end_date = parse_date(argv[2])
ParseEnd ==
    /\ pc = "parse_end"
    /\ parse_date(Arg(2)).ok
    /\ end_date' = parse_date(Arg(2)).val
    /\ pc' = "range"
    /\ UNCHANGED <<err, mainVars, start_date, meeting_days, no_class_dates, genVars, daysVars>>

ParseEndFails ==
    /\ pc = "parse_end"
    /\ ~parse_date(Arg(2)).ok
    /\ pc' = "failed"
    /\ err' = "ValueError: date"
    /\ UNCHANGED <<mainVars, inputVars, genVars, daysVars>>

\* if end_date < start_date: raise SystemExit(...)
RangeFails ==
    /\ pc = "range"
    /\ EndBeforeStart(start_date, end_date)
    /\ pc' = "failed"
    /\ err' = "SystemExit: end_date must be on or after start_date"
    /\ UNCHANGED <<mainVars, inputVars, genVars, daysVars>>

RangeOk ==
    /\ pc = "range"
    /\ ~EndBeforeStart(start_date, end_date)
    /\ pc' = "days"
    /\ UNCHANGED <<err, mainVars, inputVars, genVars, daysVars>>

\* meeting_days = parse_meeting_days(argv[3])
ParseDays ==
    /\ pc = "days"
    /\ parse_meeting_days(Arg(3)).ok
    /\ meeting_days' = parse_meeting_days(Arg(3)).val
    /\ pc' = "no_class"
    /\ UNCHANGED <<err, mainVars, start_date, end_date, no_class_dates, genVars, daysVars>>

ParseDaysFails ==
    /\ pc = "days"
    /\ ~parse_meeting_days(Arg(3)).ok
    /\ pc' = "failed"
    /\ err' = "ValueError: Unknown day token"
    /\ UNCHANGED <<mainVars, inputVars, genVars, daysVars>>

\* "--no-class" not in argv: the exclusion set stays empty
NoClassAbsent ==
    /\ pc = "no_class"
    /\ NoClassFlag \notin Range(argv)
    /\ no_class_dates' = {}
    /\ pc' = "loop"
    /\ UNCHANGED <<err, mainVars, start_date, end_date, meeting_days, genVars, daysVars>>

\* mutant: a flag without a value is taken for no flag at all
NoClassMissingValue_ignored ==
    /\ pc = "no_class"
    /\ NoClassFlag \in Range(argv)
    /\ IndexOf(NoClassFlag) + 1 >= Len(argv)
    /\ no_class_dates' = {}
    /\ pc' = "loop"
    /\ UNCHANGED <<err, mainVars, start_date, end_date, meeting_days, genVars, daysVars>>

\* idx + 1 >= len(argv): raise SystemExit(...)
NoClassMissingValue ==
    /\ pc = "no_class"
    /\ NoClassFlag \in Range(argv)
    /\ IndexOf(NoClassFlag) + 1 >= Len(argv)
    /\ pc' = "failed"
    /\ err' = "SystemExit: --no-class requires a value"
    /\ UNCHANGED <<mainVars, inputVars, genVars, daysVars>>

\* no_class_dates = parse_date_list(argv[idx + 1])
NoClassParsed ==
    /\ pc = "no_class"
    /\ NoClassFlag \in Range(argv)
    /\ IndexOf(NoClassFlag) + 1 < Len(argv)
    /\ parse_date_list(NoClassValue).ok
    /\ no_class_dates' = parse_date_list(NoClassValue).val
    /\ pc' = "loop"
    /\ UNCHANGED <<err, mainVars, start_date, end_date, meeting_days, genVars, daysVars>>

NoClassFails ==
    /\ pc = "no_class"
    /\ NoClassFlag \in Range(argv)
    /\ IndexOf(NoClassFlag) + 1 < Len(argv)
    /\ ~parse_date_list(NoClassValue).ok
    /\ pc' = "failed"
    /\ err' = "ValueError: date"
    /\ UNCHANGED <<mainVars, inputVars, genVars, daysVars>>

MainStep == GenStep(start_date, end_date, meeting_days, no_class_dates, week_index)

\* one pass of the for loop: the generator yields a week, its file is written,
\* its name is appended to week_files and the write is reported
WriteWeek ==
    /\ pc = "loop"
    /\ week_index < MaxWeeks
    /\ MainStep.kind = "yield"
    /\ LET w == MainStep.week
           filename == WeekFileName(w.week_number)
           xml == generate_week_xml(w.week_number, w.week_start, w.week_end, w.meetings)
       IN  /\ fs' = WriteFile(fs, filename, xml)
           /\ writes' = Append(writes, [name |-> filename, ok |-> TRUE])
           /\ week_files' = Append(week_files, filename)
           /\ stdout' = Append(stdout, <<"Wrote ">> \o filename)
           /\ yielded' = Append(yielded, w)
    /\ week_index' = week_index + 1
    /\ UNCHANGED <<pc, err, argv, fs0, inputVars, daysVars>>

\* mutant: the OSError is swallowed and the loop goes on to the next week
WriteWeekFails_swallowed ==
    /\ pc = "loop"
    /\ week_index < MaxWeeks
    /\ GenStep(start_date, end_date, meeting_days, no_class_dates, week_index).kind = "yield"
    /\ LET w == GenStep(start_date, end_date, meeting_days, no_class_dates, week_index).week
       IN  /\ writes' = Append(writes, [name |-> WeekFileName(w.week_number), ok |-> FALSE])
           /\ yielded' = Append(yielded, w)
    /\ week_index' = week_index + 1
    /\ UNCHANGED <<pc, err, argv, fs, fs0, week_files, stdout, inputVars, daysVars>>

\* the same pass when write_text raises OSError: the file is left as it was
\* (it could not be opened) or cut short (it was opened, the write failed)
WriteWeekFails ==
    /\ pc = "loop"
    /\ week_index < MaxWeeks
    /\ MainStep.kind = "yield"
    /\ LET w == MainStep.week
           filename == WeekFileName(w.week_number)
       IN  /\ fs' \in {fs, WriteFile(fs, filename, PartialText)}
           /\ writes' = Append(writes, [name |-> filename, ok |-> FALSE])
           /\ yielded' = Append(yielded, w)
    /\ pc' = "failed"
    /\ err' = "OSError"
    /\ UNCHANGED <<argv, fs0, week_files, stdout, week_index, inputVars, daysVars>>

\* the generator raises OverflowError inside the for loop
GenOverflow ==
    /\ pc = "loop"
    /\ MainStep.kind = "overflow"
    /\ pc' = "failed"
    /\ err' = "OverflowError"
    /\ UNCHANGED <<mainVars, inputVars, genVars, daysVars>>

\* the generator is exhausted: the for loop ends
GenStop ==
    /\ pc = "loop"
    /\ MainStep.kind = "stop"
    /\ pc' = "index"
    /\ UNCHANGED <<err, mainVars, inputVars, genVars, daysVars>>

\* generate_main_ptx(week_files): main.ptx is written and reported
WriteMain ==
    /\ pc = "index"
    /\ fs' = WriteFile(fs, MainFileName, MainPtx(week_files))
    /\ writes' = Append(writes, [name |-> MainFileName, ok |-> TRUE])
    /\ stdout' = Append(stdout, <<"Wrote ">> \o MainFileName)
    /\ pc' = "done"
    /\ UNCHANGED <<err, argv, fs0, week_files, inputVars, genVars, daysVars>>

WriteMainFails ==
    /\ pc = "index"
    /\ fs' \in {fs, WriteFile(fs, MainFileName, PartialText)}
    /\ writes' = Append(writes, [name |-> MainFileName, ok |-> FALSE])
    /\ pc' = "failed"
    /\ err' = "OSError"
    /\ UNCHANGED <<argv, fs0, week_files, stdout, inputVars, genVars, daysVars>>

Next ==
    \/ UsageExit
    \/ ParseStart
    \/ ParseStartFails
    \/ ParseEnd
    \/ ParseEndFails
    \/ RangeFails
    \/ RangeOk
    \/ ParseDays
    \/ ParseDaysFails
    \/ NoClassAbsent
    \/ NoClassMissingValue
    \/ NoClassParsed
    \/ NoClassFails
    \/ WriteWeek
    \/ WriteWeekFails
    \/ GenOverflow
    \/ GenStop
    \/ WriteMain
    \/ WriteMainFails

Spec == Init /\ [][Next]_vars

(***************************************************************************)
(* Claims about main                                                       *)
(***************************************************************************)
Ended == pc \in {"done", "failed"}

RangeError == "SystemExit: end_date must be on or after start_date"

MissingValueError == "SystemExit: --no-class requires a value"

\* the two date tokens of the argument list parse
DatesParse ==
    /\ Len(argv) >= 4
    /\ parse_date(Arg(1)).ok
    /\ parse_date(Arg(2)).ok

\* "weekNN.ptx" for 1 <= n <= 99, written out digit by digit
ExpectedWeekName(n) == <<"week", Digits[(n \div 10) + 1], Digits[(n % 10) + 1], ".ptx">>

WrittenNames == {writes[i].name : i \in 1..Len(writes)}

\* every file the run has not written is as it was when the run began
OthersUntouched ==
    \A f \in DOMAIN fs : f \notin WrittenNames => f \in DOMAIN fs0 /\ fs[f] = fs0[f]

\* C4: when the argument list has its three positional tokens, both date
\* tokens parse and end < start, the run never gets past the range check,
\* writes nothing and leaves the directory as it was, and when it has ended
\* it has failed with the range error, whatever the other tokens are.
C4_RangeErrorFirst ==
    (DatesParse /\ parse_date(Arg(2)).val < parse_date(Arg(1)).val) =>
        /\ pc \in {"main", "parse_end", "range", "failed"}
        /\ writes = <<>>
        /\ fs = fs0
        /\ Ended => err = RangeError

\* end < start with an unknown day token and a malformed exclusion list
C4_Witness ==
    /\ argv = <<ProgName, Tok_Mar25, Tok_Mar12, Tok_zz, NoClassFlag, Tok_zz>>
    /\ pc = "failed"
    /\ err = RangeError

\* C5: a run that has ended without failure wrote week01.ptx .. weekKK.ptx once
\* each, in that order, K the number of calendar weeks intersecting
\* [start, end], then main.ptx once; every week file is on disk with one entry
\* per eligible date (none for a week without meetings) and main.ptx lists
\* exactly the K names in order.
C5_FilesWritten ==
    pc = "done" =>
        LET K == WeeksIntersecting(start_date, end_date)
        IN  /\ Len(writes) = K + 1
            /\ \A n \in 1..K : writes[n] = [name |-> ExpectedWeekName(n), ok |-> TRUE]
            /\ writes[K + 1] = [name |-> <<"main.ptx">>, ok |-> TRUE]
            /\ \A i, j \in 1..Len(writes) : i < j => writes[i].name # writes[j].name
            /\ \A n \in 1..K :
                  /\ ExpectedWeekName(n) \in DOMAIN fs
                  /\ fs[ExpectedWeekName(n)].kind = "week"
                  /\ Len(fs[ExpectedWeekName(n)].items) = Cardinality(Eligible(yielded[n]))
            /\ fs[<<"main.ptx">>] =
                  [kind |-> "index", includes |-> [n \in 1..K |-> ExpectedWeekName(n)]]
            /\ OthersUntouched

\* the run of 3/12/2026 .. 3/25/2026, "Mon Wed", --no-class 3/18/2026: three
\* weeks, the first without meetings, the second without the excluded date
C5_Witness ==
    /\ argv = <<ProgName, Tok_Mar12, Tok_Mar25, Tok_MonWed, NoClassFlag, Tok_Mar18>>
    /\ pc = "done"
    /\ Len(week_files) = 3
    /\ fs[ExpectedWeekName(1)].items = <<>>
    /\ fs[ExpectedWeekName(2)].items = <<<<"March", " ", "1", "6">>>>
    /\ fs[ExpectedWeekName(3)].items = <<<<"March", " ", "2", "3">>, <<"March", " ", "2", "5">>>>

\* the flag occurs once, as the last token
FlagLastOnly ==
    /\ argv[Len(argv)] = NoClassFlag
    /\ \A i \in 1..(Len(argv) - 1) : argv[i] # NoClassFlag

\* the three positional tokens are two dates start <= end and a meeting-day
\* string that parse_meeting_days accepts
PositionalsValid ==
    /\ DatesParse
    /\ parse_date(Arg(1)).val <= parse_date(Arg(2)).val
    /\ parse_meeting_days(Arg(3)).ok

\* C6 as stated: with at least the minimum number of tokens and valid dates
\* start <= end, a --no-class flag that no token follows makes main fail with
\* the missing-value error and no other, also when the flag is the fourth token.
C6_AsStated ==
    (/\ Ended
     /\ DatesParse
     /\ parse_date(Arg(1)).val <= parse_date(Arg(2)).val
     /\ FlagLastOnly) => err = MissingValueError

\* C6 as amended: when the three positional tokens are valid (two dates
\* start <= end and an accepted meeting-day string) and the only --no-class is
\* the last token, the run writes nothing and, once ended, has failed with the
\* missing-value error.
C6_MissingValue ==
    (FlagLastOnly /\ PositionalsValid) =>
        /\ writes = <<>>
        /\ pc \in {"main", "parse_end", "range", "days", "no_class", "failed"}
        /\ Ended => err = MissingValueError

\* the flag is last, after valid positional tokens and one more token
C6_Witness ==
    /\ argv = <<ProgName, Tok_Mar12, Tok_Mar25, Tok_MonWed, Tok_zz, NoClassFlag>>
    /\ pc = "failed"
    /\ err = MissingValueError

\* the argument lists made of the three valid positional tokens and the pair
\* (--no-class, value) put in front of, between or after them
PairPlacements(p1, p2, p3, v) ==
    {<<ProgName, NoClassFlag, v, p1, p2, p3>>,
     <<ProgName, p1, NoClassFlag, v, p2, p3>>,
     <<ProgName, p1, p2, NoClassFlag, v, p3>>,
     <<ProgName, p1, p2, p3, NoClassFlag, v>>}

\* a run in which no write has failed
NoWriteFailed == \A i \in 1..Len(writes) : writes[i].ok

\* C7 as stated: wherever the pair (--no-class, value) stands among the three
\* positional tokens, the run takes start, end and meeting days from the
\* positional tokens and the exclusions from the value, and ends having
\* written the files.
C7_AsStated ==
    \A p1, p2 \in {Tok_Mar12, Tok_Mar25} :
        (/\ Ended
         /\ NoWriteFailed
         /\ parse_date(p1).val <= parse_date(p2).val
         /\ argv \in PairPlacements(p1, p2, Tok_MonWed, Tok_Mar18)) =>
            /\ pc = "done"
            /\ start_date = parse_date(p1).val
            /\ end_date = parse_date(p2).val
            /\ meeting_days = parse_meeting_days(Tok_MonWed).val
            /\ no_class_dates = parse_date_list(Tok_Mar18).val

\* how the run on (start, end, days, excl) ends when every write succeeds,
\* from loop pass idx with the directory dir and the week files written so far
RECURSIVE RunFrom(_, _, _, _, _, _, _)
RunFrom(dir, files, start, end, days, excl, idx) ==
    LET g == GenStep(start, end, days, excl, idx)
    IN  IF g.kind = "overflow"
        THEN [pc |-> "failed", err |-> "OverflowError", fs |-> dir, week_files |-> files]
        ELSE IF g.kind = "stop"
        THEN [pc |-> "done", err |-> "none",
              fs |-> WriteFile(dir, <<"main.ptx">>, MainPtx(files)),
              week_files |-> files]
        ELSE LET w == g.week
                 name == ExpectedWeekName(w.week_number)
             IN  RunFrom(WriteFile(dir, name,
                                   generate_week_xml(w.week_number, w.week_start,
                                                     w.week_end, w.meetings)),
                         Append(files, name), start, end, days, excl, idx + 1)

\* the first --no-class stands after the positional tokens and a token that
\* parses as a list of dates follows it
PairAfterPositionals ==
    /\ NoClassFlag \in Range(argv)
    /\ \E i \in 5..(Len(argv) - 1) :
          /\ argv[i] = NoClassFlag
          /\ \A j \in 1..(i - 1) : argv[j] # NoClassFlag
          /\ parse_date_list(argv[i + 1]).ok

\* the token that follows the first --no-class
ValueAfterFlag ==
    argv[(CHOOSE i \in 1..Len(argv) :
              argv[i] = NoClassFlag /\ \A j \in 1..(i - 1) : argv[j] # NoClassFlag) + 1]

\* C7 as amended: when the three positional tokens are valid and the pair
\* (--no-class, value) stands anywhere after them, with or without other
\* tokens around it, a run in which no write fails takes start, end and
\* meeting days from the positional tokens and the exclusions from the value,
\* and ends as, and with the files of, the run on these four values alone.
C7_FlagAfterPositionals ==
    (Ended /\ NoWriteFailed /\ PairAfterPositionals /\ PositionalsValid) =>
        /\ start_date = parse_date(Arg(1)).val
        /\ end_date = parse_date(Arg(2)).val
        /\ meeting_days = parse_meeting_days(Arg(3)).val
        /\ no_class_dates = parse_date_list(ValueAfterFlag).val
        /\ [pc |-> pc, err |-> err, fs |-> fs, week_files |-> week_files] =
              RunFrom(fs0, <<>>, parse_date(Arg(1)).val, parse_date(Arg(2)).val,
                      parse_meeting_days(Arg(3)).val,
                      parse_date_list(ValueAfterFlag).val, 0)

\* the pair stands after the positional tokens and another token, and the
\* excluded date is missing from the second week
C7_Witness ==
    /\ argv = <<ProgName, Tok_Mar12, Tok_Mar25, Tok_MonWed, Tok_zz, NoClassFlag, Tok_Mar18>>
    /\ pc = "done"
    /\ no_class_dates = {Ymd2Ord(2026, 3, 18)}
    /\ Len(fs[ExpectedWeekName(2)].items) = 1

\* C9: a failed write of a week file is the last write of the run: the run
\* has failed with the OSError, every earlier write succeeded and was of
\* another file, main.ptx has not been written, the files of the earlier
\* weeks hold what was written to them and every other file but the failed
\* one is as it was.
C9_WriteFailureAborts ==
    \A k \in 1..Len(writes) :
        (~writes[k].ok /\ writes[k].name # <<"main.ptx">>) =>
            /\ k = Len(writes)
            /\ pc = "failed"
            /\ err = "OSError"
            /\ writes[k].name = ExpectedWeekName(k)
            /\ <<"main.ptx">> \notin WrittenNames
            /\ \A j \in 1..(k - 1) :
                  /\ writes[j] = [name |-> ExpectedWeekName(j), ok |-> TRUE]
                  /\ fs[ExpectedWeekName(j)] =
                        generate_week_xml(j, yielded[j].week_start, yielded[j].week_end,
                                          yielded[j].meetings)
            /\ OthersUntouched

\* the write of the second week fails after the first week was written
C9_Witness ==
    /\ pc = "failed"
    /\ Len(writes) = 2
    /\ writes[1].ok
    /\ ~writes[2].ok
    /\ ExpectedWeekName(2) \in DOMAIN fs
    /\ fs[ExpectedWeekName(2)].kind = "partial"
    /\ fs[ExpectedWeekName(1)].kind = "week"

====
